---------------------------- MODULE Spec2Model ----------------------------
(***************************************************************************)
(* Model of onnxruntime/python/tools/quantization/quant_utils.py: the      *)
(* range tables, compute_scale_zp, compute_scale_zp_float8,                *)
(* quantize_nparray, quantize_data and get_qmin_qmax_for_qType.            *)
(*                                                                         *)
(* Real numbers are exact: a real is the record [n, d, e] standing for     *)
(* (n / d) * 2^e with n and d odd and coprime (0 is [0, 1, 0]); d = 0      *)
(* marks NaN.  Floating-point rounding error of the host arithmetic is     *)
(* not modelled, the float32 threshold of the degenerate scale is.         *)
(***************************************************************************)
EXTENDS Integers, Sequences, FiniteSets, TLC

(***************************************************************************)
(* Exact arithmetic                                                        *)
(***************************************************************************)
Abs(x) == IF x < 0 THEN -x ELSE x

RECURSIVE GCD(_, _)
GCD(a, b) == IF b = 0 THEN a ELSE GCD(b, a % b)

RECURSIVE Pow2(_)
Pow2(k) == IF k <= 0 THEN 1 ELSE 2 * Pow2(k - 1)

\* ceil(x / 2^k) and floor(x / 2^k) by repeated halving (k may be large).
RECURSIVE CeilShift(_, _)
CeilShift(x, k) ==
    IF k <= 0 \/ x = 0 \/ x = 1 THEN x ELSE CeilShift((x + 1) \div 2, k - 1)

RECURSIVE FloorShift(_, _)
FloorShift(x, k) ==
    IF k <= 0 \/ x = 0 \/ x = -1 THEN x ELSE FloorShift(x \div 2, k - 1)

NaN == [n |-> 0, d |-> 0, e |-> 0]
IsNaN(r) == r.d = 0
Zero == [n |-> 0, d |-> 1, e |-> 0]

\* Move the factors of two of n and d into the exponent.
RECURSIVE OddForm(_, _, _)
OddForm(n, d, e) ==
    IF n % 2 = 0 THEN OddForm(n \div 2, d, e + 1)
    ELSE IF d % 2 = 0 THEN OddForm(n, d \div 2, e - 1)
    ELSE [n |-> n, d |-> d, e |-> e]

\* The real (n / d) * 2^e, d # 0, in canonical form.
Real(n, d, e) ==
    IF n = 0 THEN Zero
    ELSE LET s == IF d < 0 THEN -1 ELSE 1
             g == GCD(Abs(n), Abs(d))
         IN  OddForm((s * n) \div g, (s * d) \div g, e)

IntReal(i) == Real(i, 1, 0)
One == IntReal(1)

RNeg(a) == [a EXCEPT !.n = -a.n]
RAbs(a) == [a EXCEPT !.n = Abs(a.n)]

\* a < b for reals that are not NaN (every comparison with NaN is false).
RLess(a, b) ==
    IF IsNaN(a) \/ IsNaN(b) THEN FALSE
    ELSE LET L == a.n * b.d
             R == b.n * a.d
             k == a.e - b.e
         IN  IF k >= 0 THEN L < CeilShift(R, k) ELSE FloorShift(L, -k) < R

RAdd(a, b) ==
    IF IsNaN(a) \/ IsNaN(b) THEN NaN
    ELSE IF a.n = 0 THEN b
    ELSE IF b.n = 0 THEN a
    ELSE LET e0 == IF a.e < b.e THEN a.e ELSE b.e
             an == a.n * Pow2(a.e - e0)
             bn == b.n * Pow2(b.e - e0)
         IN  Real(an * b.d + bn * a.d, a.d * b.d, e0)

RSub(a, b) == RAdd(a, RNeg(b))

RMul(a, b) ==
    IF IsNaN(a) \/ IsNaN(b) THEN NaN
    ELSE Real(a.n * b.n, a.d * b.d, a.e + b.e)

\* a / b for b # 0.
RDiv(a, b) ==
    IF IsNaN(a) \/ IsNaN(b) THEN NaN
    ELSE Real(a.n * b.d, a.d * b.n, a.e - b.e)

\* round(p / q), q > 0, ties to the even integer: Python's round() and
\* numpy's ndarray.round() both round half to even.
RoundHalfEven(p, q) ==
    LET f == p \div q
        r2 == 2 * (p - f * q)
    IN  IF r2 < q THEN f
        ELSE IF r2 > q THEN f + 1
        ELSE IF f % 2 = 0 THEN f ELSE f + 1

\* round() of a real.  Below 2^-32 times a 31-bit numerator the value is
\* smaller than 1/2 in magnitude and rounds to 0.
RRound(a) ==
    IF a.e >= 0 THEN RoundHalfEven(a.n * Pow2(a.e), a.d)
    ELSE IF a.e < -32 THEN 0
    ELSE RoundHalfEven(a.n, a.d * Pow2(-a.e))


(***************************************************************************)
(* Numeric kinds and the range tables                                      *)
(***************************************************************************)
IntKinds == {"UINT8", "INT8", "UINT16", "INT16"}
Float8Kind == "FLOAT8E4M3FN"
\* The other float 8 kinds quantize_nparray names; none has a storage type.
OtherFloat8Kinds == {"FLOAT8E4M3FNUZ", "FLOAT8E5M2", "FLOAT8E5M2FNUZ"}

\* None, and the absent entry of dict.get().
None == << >>
Some(v) == << v >>

ONNX_TYPE_TO_NP_TYPE ==
    [INT8 |-> [bits |-> 8, signed |-> TRUE],
     UINT8 |-> [bits |-> 8, signed |-> FALSE],
     INT16 |-> [bits |-> 16, signed |-> TRUE],
     UINT16 |-> [bits |-> 16, signed |-> FALSE],
     FLOAT8E4M3FN |-> [bits |-> 8, signed |-> FALSE]]

ONNX_INT_TYPE_RANGE ==
    [UINT8 |-> <<0, 255>>,
     INT8 |-> <<-128, 127>>,
     UINT16 |-> <<0, 65535>>,
     INT16 |-> <<-32768, 32767>>]

ONNX_INT_TYPE_SYMMETRIC_RANGE ==
    [INT8 |-> <<-127, 127>>,
     INT16 |-> <<-32767, 32767>>]

ONNX_INT_TYPE_REDUCED_RANGE ==
    [UINT8 |-> <<0, 127>>,
     INT8 |-> <<-64, 64>>,
     UINT16 |-> <<0, 32767>>,
     INT16 |-> <<-16384, 16384>>]

\* dict.get(key): the entry, or None.
DictGet(table, key) == IF key \in DOMAIN table THEN table[key] ELSE None

(***************************************************************************)
(* Outcomes of a call: a returned value or a raised exception              *)
(***************************************************************************)
\* value holds a returned tuple or list, by the names of its parts; array
\* holds a returned ndarray.
Ok(v) == [status |-> "ok", value |-> v, array |-> None]
OkArray(a) == [status |-> "ok", value |-> None, array |-> a]
Raise(exc) == [status |-> exc, value |-> None, array |-> None]
IsOk(r) == r.status = "ok"

(***************************************************************************)
(* get_qmin_qmax_for_qType                                                 *)
(***************************************************************************)
\* A variant that tests symmetric before reduce_range.
get_qmin_qmax_symmetric_first(qType, reduce_range, symmetric) ==
    IF qType = Float8Kind THEN Raise("NotImplementedError")
    ELSE LET qrange ==
                 IF symmetric /\ qType \in DOMAIN ONNX_INT_TYPE_SYMMETRIC_RANGE
                     THEN ONNX_INT_TYPE_SYMMETRIC_RANGE[qType]
                 ELSE IF reduce_range
                     THEN DictGet(ONNX_INT_TYPE_REDUCED_RANGE, qType)
                 ELSE DictGet(ONNX_INT_TYPE_RANGE, qType)
         IN  IF qrange = None THEN Raise("ValueError")
             ELSE Ok([qmin |-> qrange[1], qmax |-> qrange[2]])

get_qmin_qmax_for_qType(qType, reduce_range, symmetric) ==
    IF qType = Float8Kind THEN Raise("NotImplementedError")
    ELSE LET qrange ==
                 IF reduce_range
                     THEN DictGet(ONNX_INT_TYPE_REDUCED_RANGE, qType)
                 ELSE IF symmetric /\ qType \in DOMAIN ONNX_INT_TYPE_SYMMETRIC_RANGE
                     THEN ONNX_INT_TYPE_SYMMETRIC_RANGE[qType]
                 ELSE DictGet(ONNX_INT_TYPE_RANGE, qType)
         IN  IF qrange = None THEN Raise("ValueError")
             ELSE Ok([qmin |-> qrange[1], qmax |-> qrange[2]])

(***************************************************************************)
(* compute_scale_zp                                                        *)
(***************************************************************************)
\* The exponent of numpy.finfo(numpy.float32).tiny = 2^-126.
TinyExp == -126
Tiny == Real(1, 1, TinyExp)

\* rmin = min(rmin, 0); rmax = max(rmax, 0)
ZeroExtend(rmin, rmax) ==
    << IF RLess(Zero, rmin) THEN Zero ELSE rmin,
       IF RLess(rmax, Zero) THEN Zero ELSE rmax >>

\* max(a, b) of Python: b only when it is greater than a.
RMax(a, b) == IF RLess(a, b) THEN b ELSE a
RMin(a, b) == IF RLess(b, a) THEN b ELSE a

\* A variant that lowers rmin and leaves rmax as it was.
SymmetrizeLowOnly(rmin, rmax) ==
    LET absmax == RMax(RAbs(rmin), RAbs(rmax))
    IN  << RNeg(absmax), rmax >>

\* absmax = max(abs(rmin), abs(rmax)); rmin = -absmax; rmax = +absmax
Symmetrize(rmin, rmax) ==
    LET absmax == RMax(RAbs(rmin), RAbs(rmax))
    IN  << RNeg(absmax), absmax >>

\* A variant that takes only an exactly zero scale as degenerate.
IsDegenerateZeroOnly(scale) == scale = Zero

\* scale < numpy.finfo(numpy.float32).tiny
IsDegenerate(scale) == RLess(scale, Tiny)

compute_scale_zp(rmin, rmax, qmin, qmax, symmetric) ==
    IF qmin > 0 \/ qmax < 0 THEN Raise("ValueError")
    ELSE LET ext == ZeroExtend(rmin, rmax)
             rng == IF symmetric THEN Symmetrize(ext[1], ext[2]) ELSE ext
         IN  \* (rmax - rmin) / float(qmax - qmin): a zero divisor raises
             IF qmax - qmin = 0 THEN Raise("ZeroDivisionError")
             ELSE LET scale == RDiv(RSub(rng[2], rng[1]), IntReal(qmax - qmin))
                  IN  IF IsDegenerate(scale)
                          THEN Ok([zero_point |-> 0, scale |-> One])
                      ELSE Ok([zero_point |->
                                   RRound(RSub(IntReal(qmin), RDiv(rng[1], scale))),
                               scale |-> scale])

(***************************************************************************)
(* compute_scale_zp_float8 and the cache FLOAT8_DISTRIBUTIONS              *)
(*                                                                         *)
(* A standard deviation is carried as its square (the variance), NaN for   *)
(* the empty array.  The scale std / std_f8 of a float 8 kind is the       *)
(* record [var, f8]: sqrt(var) over the standard deviation of f8, the      *)
(* array the cache holds for the kind; it is NaN when std is.              *)
(***************************************************************************)
\* The array cached for E4M3FN: the decodings of the bit patterns of
\* range(0, 256), those that are NaN or infinite dropped.  E4M3FN has no
\* infinity and its NaN is S.1111.111.
Float8FiniteValues ==
    [decoded |-> 0..255, dropped |-> { i \in 0..255 : i % 128 = 127 }]

\* The cache after the lookup of lines 239-249 (unchanged when it raises).
Float8CacheAfter(cache, element_type) ==
    IF element_type \in DOMAIN cache THEN cache
    ELSE IF element_type = Float8Kind
        THEN [k \in DOMAIN cache \cup {element_type} |->
                 IF k = element_type THEN Float8FiniteValues ELSE cache[k]]
    ELSE cache

compute_scale_zp_float8(cache, element_type, std) ==
    IF element_type \notin DOMAIN cache /\ element_type # Float8Kind
        THEN Raise("ValueError")
    ELSE Ok([zero_point |-> 0,
             scale |-> IF IsNaN(std) THEN NaN
                       ELSE [var |-> std,
                             f8 |-> Float8CacheAfter(cache, element_type)[element_type]]])

(***************************************************************************)
(* quantize_nparray                                                        *)
(***************************************************************************)
\* ndarray.astype(dtype) of an integral value: it wraps into the dtype.
AsType(dtype, v) ==
    LET m == Pow2(dtype.bits)
        w == v % m
    IN  IF dtype.signed /\ w >= m \div 2 THEN w - m ELSE w

\* numpy.clip(x, lo, hi) is minimum(maximum(x, lo), hi).
Clip(x, lo, hi) ==
    LET a == IF x < lo THEN lo ELSE x
    IN  IF a > hi THEN hi ELSE a

\* A variant that clips to the full native range of the kind.
ClipRangeFull(qType) == get_qmin_qmax_for_qType(qType, FALSE, FALSE)

\* get_qmin_qmax_for_qType(qType, reduce_range=False, symmetric=True)
ClipRange(qType) == get_qmin_qmax_for_qType(qType, FALSE, TRUE)

\* A variant that subtracts the zero point.
QuantizeElementSubtract(x, scale, zero_point) ==
    RRound(RDiv(x, scale)) - zero_point

\* (arr.astype(float32) / scale).round() + zero_point, for one element
QuantizeElement(x, scale, zero_point) ==
    RRound(RDiv(x, scale)) + zero_point

\* kernel_out is what the external ReferenceEvaluator returns for the
\* QuantizeLinear graph of the float 8 branch.
quantize_nparray(qType, arr, scale, zero_point, low, high, kernel_out) ==
    IF qType \notin DOMAIN ONNX_TYPE_TO_NP_TYPE THEN Raise("AssertionError")
    ELSE IF qType \in {Float8Kind} \cup OtherFloat8Kinds
        THEN IF zero_point # 0 THEN Raise("NotImplementedError")
             ELSE OkArray(kernel_out)
    ELSE LET dtype == ONNX_TYPE_TO_NP_TYPE[qType]
             qr == ClipRange(qType)
         IN  IF ~IsOk(qr) THEN qr
             ELSE LET qmin == qr.value.qmin
                      qmax == qr.value.qmax
                      cliplow == IF low # None /\ low[1] > qmin
                                     THEN low[1] ELSE qmin
                      cliphigh == IF high # None /\ high[1] < qmax
                                      THEN high[1] ELSE qmax
                  IN  OkArray([i \in 1..Len(arr) |->
                             AsType(dtype,
                                    Clip(QuantizeElement(arr[i], scale, zero_point),
                                         cliplow, cliphigh))])

(***************************************************************************)
(* quantize_data                                                           *)
(***************************************************************************)
RECURSIVE SeqMin(_)
SeqMin(s) == IF Len(s) = 1 THEN s[1] ELSE RMin(SeqMin(Tail(s)), s[1])

RECURSIVE SeqMax(_)
SeqMax(s) == IF Len(s) = 1 THEN s[1] ELSE RMax(SeqMax(Tail(s)), s[1])

RECURSIVE SeqSum(_)
SeqSum(s) == IF Len(s) = 0 THEN Zero ELSE RAdd(s[1], SeqSum(Tail(s)))

\* numpy.std(data), as the variance mean(x^2) - mean(x)^2; NaN when empty.
Std(data) ==
    IF Len(data) = 0 THEN NaN
    ELSE LET cnt == IntReal(Len(data))
             mean == RDiv(SeqSum(data), cnt)
             sq == [i \in 1..Len(data) |-> RMul(data[i], data[i])]
         IN  RSub(RDiv(SeqSum(sq), cnt), RMul(mean, mean))

\* A variant that returns the zero-extended range.
DataRangeZeroForced(data) ==
    IF Len(data) # 0
        THEN ZeroExtend(SeqMin(data), SeqMax(data))
    ELSE << Zero, Zero >>

\* rmin = 0; rmax = 0; if len(data): rmin = min(data); rmax = max(data)
DataRange(data) ==
    IF Len(data) # 0 THEN << SeqMin(data), SeqMax(data) >> ELSE << Zero, Zero >>

\* any((quantized_data.astype(uint8).ravel() & 127) == 127)
HasNaNCode(quantized) == \E i \in 1..Len(quantized) : quantized[i] % 128 = 127

QuantizeDataResult(rng, zero_point, scale, quantized) ==
    Ok([rmin |-> rng[1], rmax |-> rng[2], zero_point |-> zero_point,
        scale |-> scale, quantized_data |-> quantized])

quantize_data(cache, data, qType, symmetric, reduce_range, kernel_out) ==
    LET rng == DataRange(data)
    IN  IF qType = Float8Kind
            THEN IF reduce_range THEN Raise("RuntimeError")
                 ELSE LET zs == compute_scale_zp_float8(cache, qType, Std(data))
                          q == quantize_nparray(qType, data, zs.value.scale,
                                                zs.value.zero_point, None, None,
                                                kernel_out)
                      IN  IF ~IsOk(zs) THEN zs
                          ELSE IF ~IsOk(q) THEN q
                          ELSE IF HasNaNCode(q.array) THEN Raise("RuntimeError")
                          ELSE QuantizeDataResult(rng, zs.value.zero_point,
                                                  zs.value.scale, q.array)
        ELSE IF qType \in IntKinds
            THEN LET qr == get_qmin_qmax_for_qType(qType, reduce_range, symmetric)
                     zs == IF Len(data) # 0
                               THEN IF IsOk(qr)
                                        THEN compute_scale_zp(rng[1], rng[2],
                                                              qr.value.qmin, qr.value.qmax,
                                                              symmetric)
                                    ELSE qr
                           ELSE Ok([zero_point |-> 0, scale |-> One])
                     q == quantize_nparray(qType, data, zs.value.scale,
                                           zs.value.zero_point, None, None, None)
                 IN  IF ~IsOk(zs) THEN zs
                     ELSE IF ~IsOk(q) THEN q
                     ELSE QuantizeDataResult(rng, zs.value.zero_point,
                                             zs.value.scale, q.array)
        ELSE Raise("ValueError")

\* The cache after quantize_data: only a float 8 call that reaches
\* compute_scale_zp_float8 looks the kind up.
QuantizeDataCacheAfter(cache, qType, reduce_range) ==
    IF qType = Float8Kind /\ ~reduce_range
        THEN Float8CacheAfter(cache, qType)
    ELSE cache

(***************************************************************************)
(* Bounded inputs                                                          *)
(***************************************************************************)
\* Mantissas of the real inputs are -MaxVal..MaxVal.
MaxVal == 3
\* Arrays hold at most MaxLen elements.
MaxLen == 2
\* The small exponent of the inputs lies NearTiny above the exponent of the
\* float32 tiny, where (rmax - rmin) / (qmax - qmin) falls on either side of
\* the degenerate threshold.
NearTiny == 7

Mantissas == -MaxVal..MaxVal
Exps == {0, -1, TinyExp + NearTiny}

ArraysOf(e) ==
    UNION { { [i \in 1..k |-> Real(m[i], 1, e)] : m \in [1..k -> Mantissas] } :
            k \in 0..MaxLen }

\* The vector of the documented example, quantize_data([1.0, 2.0, 3.0], ...).
KnownVector == << IntReal(1), IntReal(2), IntReal(3) >>

DataSet == UNION { ArraysOf(e) : e \in Exps } \cup {KnownVector}

\* The ranges of the three tables and ranges no table holds: an empty width,
\* a narrow one, and two that break qmin <= 0 <= qmax.
TableRanges ==
    { ONNX_INT_TYPE_RANGE[k] : k \in DOMAIN ONNX_INT_TYPE_RANGE }
    \cup { ONNX_INT_TYPE_SYMMETRIC_RANGE[k] : k \in DOMAIN ONNX_INT_TYPE_SYMMETRIC_RANGE }
    \cup { ONNX_INT_TYPE_REDUCED_RANGE[k] : k \in DOMAIN ONNX_INT_TYPE_REDUCED_RANGE }
QRanges == TableRanges \cup { <<0, 0>>, <<-1, 1>>, <<1, 5>>, <<-5, -1>> }

\* The observed ranges handed to compute_scale_zp directly, and the two of
\* the documented example: (-3, 7) and (-7, 7).
ObservedRanges ==
    { << Real(a, 1, e), Real(b, 1, e) >> : a \in Mantissas, b \in Mantissas, e \in Exps }
    \cup { << IntReal(-3), IntReal(7) >>, << IntReal(-7), IntReal(7) >> }

\* A kind outside every table, a float 8 kind without decoder.
UnknownKind == "FLOAT"
UndecodedKind == "FLOAT8E5M2"
QueryKinds == IntKinds \cup {Float8Kind, UndecodedKind, UnknownKind}

\* Scales and zero points handed to quantize_nparray directly.
Scales == { One, IntReal(2), Real(3, 127, 0) }
ZeroPoints(qType) ==
    IF qType \in IntKinds
        THEN { ONNX_INT_TYPE_RANGE[qType][1], 0, 1, ONNX_INT_TYPE_RANGE[qType][2] }
    ELSE {0, 1}
Lows == { None, Some(-1) }
Highs == { None, Some(2) }

\* The bytes the external float 8 kernel may return for an element: the
\* encoding of 1.0 and the NaN encoding.
Float8Bytes == { 56, 127 }
KernelOuts(arr) == [1..Len(arr) -> Float8Bytes]

\* Standard deviations (as variances) handed to compute_scale_zp_float8.
Stds == { NaN, Zero, One, Real(1, 4, 0) }

(***************************************************************************)
(* State                                                                   *)
(***************************************************************************)
VARIABLES
    pc,                    \* "idle", or "returned" after a call
    call,                  \* the call made: its function and arguments
    ret,                   \* its outcome
    FLOAT8_DISTRIBUTIONS,  \* the module-level cache, kind -> finite values
    threads,               \* concurrent callers of compute_scale_zp_float8
    metadata_props         \* model.metadata_props, a sequence of entries

vars == << pc, call, ret, FLOAT8_DISTRIBUTIONS, threads, metadata_props >>

NoCall == [op |-> "none"]
NoRet == Raise("none")

\* Callers of compute_scale_zp_float8 running at the same time.
Threads == { "t1", "t2" }
IdleThread == [pc |-> "idle", element_type |-> "none", std |-> Zero, ret |-> NoRet]

Init ==
    /\ pc = "idle"
    /\ call = NoCall
    /\ ret = NoRet
    /\ FLOAT8_DISTRIBUTIONS = << >>
    /\ threads = [t \in Threads |-> IdleThread]
    /\ metadata_props = << >>

GetQminQmax ==
    /\ pc = "idle"
    /\ \E qType \in QueryKinds, reduce_range \in BOOLEAN, symmetric \in BOOLEAN :
          /\ call' = [op |-> "get_qmin_qmax_for_qType", qType |-> qType,
                      reduce_range |-> reduce_range, symmetric |-> symmetric]
          /\ ret' = get_qmin_qmax_for_qType(qType, reduce_range, symmetric)
    /\ pc' = "returned"
    /\ UNCHANGED << FLOAT8_DISTRIBUTIONS, threads, metadata_props >>

ComputeScaleZp ==
    /\ pc = "idle"
    /\ \E r \in ObservedRanges, q \in QRanges, symmetric \in BOOLEAN :
          LET rmin == r[1]
              rmax == r[2]
          IN  /\ call' = [op |-> "compute_scale_zp", rmin |-> rmin, rmax |-> rmax,
                          qmin |-> q[1], qmax |-> q[2], symmetric |-> symmetric]
              /\ ret' = compute_scale_zp(rmin, rmax, q[1], q[2], symmetric)
    /\ pc' = "returned"
    /\ UNCHANGED << FLOAT8_DISTRIBUTIONS, threads, metadata_props >>

ComputeScaleZpFloat8 ==
    /\ pc = "idle"
    /\ \E element_type \in {Float8Kind, UndecodedKind, "INT8"}, std \in Stds :
          /\ call' = [op |-> "compute_scale_zp_float8",
                      element_type |-> element_type, std |-> std]
          /\ ret' = compute_scale_zp_float8(FLOAT8_DISTRIBUTIONS, element_type, std)
          /\ FLOAT8_DISTRIBUTIONS' =
                 Float8CacheAfter(FLOAT8_DISTRIBUTIONS, element_type)
    /\ pc' = "returned"
    /\ UNCHANGED << threads, metadata_props >>

QuantizeNparray ==
    /\ pc = "idle"
    /\ \E qType \in IntKinds \cup {Float8Kind, UnknownKind}, arr \in ArraysOf(0) :
          \E scale \in IF qType \in IntKinds THEN Scales ELSE {One},
             zero_point \in ZeroPoints(qType),
             low \in IF qType \in IntKinds THEN Lows ELSE {None},
             high \in IF qType \in IntKinds THEN Highs ELSE {None},
             kernel_out \in IF qType = Float8Kind THEN KernelOuts(arr) ELSE {None} :
             /\ call' = [op |-> "quantize_nparray", qType |-> qType, arr |-> arr,
                         scale |-> scale, zero_point |-> zero_point,
                         low |-> low, high |-> high]
             /\ ret' = quantize_nparray(qType, arr, scale, zero_point, low, high,
                                        kernel_out)
    /\ pc' = "returned"
    /\ UNCHANGED << FLOAT8_DISTRIBUTIONS, threads, metadata_props >>

QuantizeData ==
    /\ pc = "idle"
    /\ \E data \in DataSet, qType \in IntKinds \cup {Float8Kind, UnknownKind},
          symmetric \in BOOLEAN, reduce_range \in BOOLEAN :
       \E kernel_out \in IF qType = Float8Kind THEN KernelOuts(data) ELSE {None} :
          /\ call' = [op |-> "quantize_data", data |-> data, qType |-> qType,
                      symmetric |-> symmetric, reduce_range |-> reduce_range]
          /\ ret' = quantize_data(FLOAT8_DISTRIBUTIONS, data, qType, symmetric,
                                  reduce_range, kernel_out)
          /\ FLOAT8_DISTRIBUTIONS' =
                 QuantizeDataCacheAfter(FLOAT8_DISTRIBUTIONS, qType, reduce_range)
    /\ pc' = "returned"
    /\ UNCHANGED << threads, metadata_props >>

\* The caller takes the outcome; the cache stays.
Return ==
    /\ pc = "returned"
    /\ pc' = "idle"
    /\ call' = NoCall
    /\ ret' = NoRet
    /\ UNCHANGED << FLOAT8_DISTRIBUTIONS, threads, metadata_props >>

Next ==
    \/ GetQminQmax
    \/ ComputeScaleZp
    \/ ComputeScaleZpFloat8
    \/ QuantizeNparray
    \/ QuantizeData
    \/ Return

Spec == Init /\ [][Next]_vars

(***************************************************************************)
(* compute_scale_zp_float8 called from several threads.  A thread's steps  *)
(* are the accesses to the shared cache: the membership test of line 239,  *)
(* the assignment of line 249 and the read of line 251; what lies between  *)
(* them is local to the thread.                                            *)
(***************************************************************************)
\* Line 239, negated: the kind has an entry.
Float8Cached(cache, element_type) == element_type \in DOMAIN cache

\* Line 240: the only kind the function decodes.
Float8DecodableAlways(element_type) == TRUE

Float8Decodable(element_type) == element_type = Float8Kind

\* Line 249, FLOAT8_DISTRIBUTIONS[element_type] = values: it overwrites.
Float8Store(cache, element_type, values) ==
    [k \in DOMAIN cache \cup {element_type} |->
        IF k = element_type THEN values ELSE cache[k]]

Float8Kinds == { Float8Kind, UndecodedKind, "INT8" }

Float8Call(t) ==
    /\ threads[t].pc = "idle"
    /\ \E element_type \in Float8Kinds, std \in Stds :
          threads' = [threads EXCEPT ![t] =
                         [pc |-> "lookup", element_type |-> element_type,
                          std |-> std, ret |-> NoRet]]
    /\ UNCHANGED << pc, call, ret, FLOAT8_DISTRIBUTIONS, metadata_props >>

\* Lines 239-248: the membership test, then the values are built locally,
\* or ValueError is raised.
Float8Lookup(t) ==
    /\ threads[t].pc = "lookup"
    /\ threads' = [threads EXCEPT ![t] =
          IF Float8Cached(FLOAT8_DISTRIBUTIONS, threads[t].element_type)
              THEN [@ EXCEPT !.pc = "scale"]
          ELSE IF Float8Decodable(threads[t].element_type)
              THEN [@ EXCEPT !.pc = "store"]
          ELSE [@ EXCEPT !.pc = "returned", !.ret = Raise("ValueError")]]
    /\ UNCHANGED << pc, call, ret, FLOAT8_DISTRIBUTIONS, metadata_props >>

Float8Assign(t) ==
    /\ threads[t].pc = "store"
    /\ FLOAT8_DISTRIBUTIONS' =
           Float8Store(FLOAT8_DISTRIBUTIONS, threads[t].element_type,
                       Float8FiniteValues)
    /\ threads' = [threads EXCEPT ![t].pc = "scale"]
    /\ UNCHANGED << pc, call, ret, metadata_props >>

\* Lines 251-254: the entry is read and the pair returned.
Float8Scale(t) ==
    /\ threads[t].pc = "scale"
    /\ threads' = [threads EXCEPT ![t] =
          [@ EXCEPT !.pc = "returned",
                    !.ret = compute_scale_zp_float8(FLOAT8_DISTRIBUTIONS,
                                                    threads[t].element_type,
                                                    threads[t].std)]]
    /\ UNCHANGED << pc, call, ret, FLOAT8_DISTRIBUTIONS, metadata_props >>

Float8Return(t) ==
    /\ threads[t].pc = "returned"
    /\ threads' = [threads EXCEPT ![t] = IdleThread]
    /\ UNCHANGED << pc, call, ret, FLOAT8_DISTRIBUTIONS, metadata_props >>

NextThreads ==
    \E t \in Threads :
        \/ Float8Call(t)
        \/ Float8Lookup(t)
        \/ Float8Assign(t)
        \/ Float8Scale(t)
        \/ Float8Return(t)

SpecThreads == Init /\ [][NextThreads]_vars

(***************************************************************************)
(* Metadata tagging.  model.metadata_props is a sequence of entries        *)
(* [key, value]; a Python dict is the sequence of its items in insertion   *)
(* order, one item per key.                                                *)
(***************************************************************************)
PreProcessKey == "onnx.quant.pre_process"
InferKey == "onnx.infer"
QuantValue == "onnxruntime.quant"

\* dict.update({key: value}): the value of a key already present is
\* replaced where it stands, a new key is appended.
DictUpdate(d, key, value) ==
    IF \E i \in 1..Len(d) : d[i].key = key
        THEN [i \in 1..Len(d) |->
                 IF d[i].key = key THEN [key |-> key, value |-> value] ELSE d[i]]
    ELSE Append(d, [key |-> key, value |-> value])

\* The loop over model.metadata_props, updating the dict with each entry.
RECURSIVE UpdateAll(_, _)
UpdateAll(d, props) ==
    IF Len(props) = 0 THEN d
    ELSE UpdateAll(DictUpdate(d, props[1].key, props[1].value), Tail(props))

\* onnx.helper.set_model_props: the entries are deleted, then one entry is
\* added per item of the dict.
set_model_props(props, dict_value) ==
    LET cleared == SubSeq(props, 1, 0)
    IN  cleared \o dict_value

add_pre_process_metadata(props) ==
    set_model_props(props,
        UpdateAll(<< [key |-> PreProcessKey, value |-> QuantValue] >>, props))

model_has_pre_process_metadata(props) ==
    \E i \in 1..Len(props) :
        props[i].key = PreProcessKey /\ props[i].value = QuantValue

add_infer_metadata(props) ==
    set_model_props(props,
        UpdateAll(<< [key |-> InferKey, value |-> QuantValue] >>, props))

model_has_infer_metadata(props) ==
    \E i \in 1..Len(props) :
        props[i].key = InferKey /\ props[i].value = QuantValue

\* The models handed in: up to MaxProps entries.
MaxProps == 2
PropKeys == { PreProcessKey, InferKey, "author" }
PropValues == { QuantValue, "other" }
PropEntries == [key : PropKeys, value : PropValues]
Models == UNION { [1..n -> PropEntries] : n \in 0..MaxProps }

InitMetadata ==
    /\ pc = "idle"
    /\ call = NoCall
    /\ ret = NoRet
    /\ FLOAT8_DISTRIBUTIONS = << >>
    /\ threads = [t \in Threads |-> IdleThread]
    /\ metadata_props \in Models

AddPreProcessMetadata ==
    /\ pc = "idle"
    /\ call' = [op |-> "add_pre_process_metadata", before |-> metadata_props]
    /\ metadata_props' = add_pre_process_metadata(metadata_props)
    /\ ret' = Ok(None)
    /\ pc' = "returned"
    /\ UNCHANGED << FLOAT8_DISTRIBUTIONS, threads >>

ModelHasPreProcessMetadata ==
    /\ pc = "idle"
    /\ call' = [op |-> "model_has_pre_process_metadata", before |-> metadata_props]
    /\ ret' = Ok([result |-> model_has_pre_process_metadata(metadata_props)])
    /\ pc' = "returned"
    /\ UNCHANGED << FLOAT8_DISTRIBUTIONS, threads, metadata_props >>

AddInferMetadata ==
    /\ pc = "idle"
    /\ call' = [op |-> "add_infer_metadata", before |-> metadata_props]
    /\ metadata_props' = add_infer_metadata(metadata_props)
    /\ ret' = Ok(None)
    /\ pc' = "returned"
    /\ UNCHANGED << FLOAT8_DISTRIBUTIONS, threads >>

ModelHasInferMetadata ==
    /\ pc = "idle"
    /\ call' = [op |-> "model_has_infer_metadata", before |-> metadata_props]
    /\ ret' = Ok([result |-> model_has_infer_metadata(metadata_props)])
    /\ pc' = "returned"
    /\ UNCHANGED << FLOAT8_DISTRIBUTIONS, threads, metadata_props >>

NextMetadata ==
    \/ AddPreProcessMetadata
    \/ ModelHasPreProcessMetadata
    \/ AddInferMetadata
    \/ ModelHasInferMetadata
    \/ Return

SpecMetadata == InitMetadata /\ [][NextMetadata]_vars

(***************************************************************************)
(* Properties                                                              *)
(***************************************************************************)
Returned(op) == pc = "returned" /\ call.op = op

\* The literal tables of the design, written out by kind.
FullRangeOf(k) ==
    CASE k = "UINT8" -> <<0, 255>> [] k = "INT8" -> <<-128, 127>>
      [] k = "UINT16" -> <<0, 65535>> [] k = "INT16" -> <<-32768, 32767>>
SymmetricRangeOf(k) ==
    CASE k = "INT8" -> <<-127, 127>> [] k = "INT16" -> <<-32767, 32767>>
      [] k = "UINT8" -> <<0, 255>> [] k = "UINT16" -> <<0, 65535>>
ReducedRangeOf(k) ==
    CASE k = "UINT8" -> <<0, 127>> [] k = "INT8" -> <<-64, 64>>
      [] k = "UINT16" -> <<0, 32767>> [] k = "INT16" -> <<-16384, 16384>>
RangeValue(t) == [qmin |-> t[1], qmax |-> t[2]]
PolicyRangeOf(k, reduce_range, symmetric) ==
    IF reduce_range THEN ReducedRangeOf(k)
    ELSE IF symmetric THEN SymmetricRangeOf(k)
    ELSE FullRangeOf(k)

\* C1: for every integer kind and every (reduce_range, symmetric),
\* get_qmin_qmax_for_qType returns the literal table entry chosen by the
\* precedence reduced > symmetric (signed kinds only) > full, and the range
\* returned satisfies qmin <= 0 <= qmax.
C1_RangePrecedence ==
    (Returned("get_qmin_qmax_for_qType") /\ call.qType \in IntKinds) =>
        /\ ret = Ok(RangeValue(PolicyRangeOf(call.qType, call.reduce_range,
                                              call.symmetric)))
        /\ ret.value.qmin <= 0
        /\ 0 <= ret.value.qmax

C1_Witness ==
    /\ Returned("get_qmin_qmax_for_qType")
    /\ call.qType = "INT8" /\ call.reduce_range /\ call.symmetric
    /\ ret = Ok(RangeValue(<<-64, 64>>))

\* C2: for all qmin <= 0 <= qmax and rmin <= 0 <= rmax, compute_scale_zp
\* returns an integer zero_point with qmin <= zero_point <= qmax and a
\* scale >= 0, for symmetric false and true.
C2_ZeroPointInRange ==
    (/\ Returned("compute_scale_zp")
     /\ call.qmin <= 0 /\ 0 <= call.qmax
     /\ ~RLess(Zero, call.rmin) /\ ~RLess(call.rmax, Zero)) =>
        /\ IsOk(ret)
        /\ ret.value.zero_point \in call.qmin..call.qmax
        /\ ~RLess(ret.value.scale, Zero)

\* The statement of C2 for the ranges of positive width, qmin < qmax.
C2_ZeroPointInRangePositiveWidth ==
    (/\ Returned("compute_scale_zp")
     /\ call.qmin <= 0 /\ 0 <= call.qmax /\ call.qmin < call.qmax) =>
        /\ IsOk(ret)
        /\ ret.value.zero_point \in call.qmin..call.qmax
        /\ ~RLess(ret.value.scale, Zero)

\* The clip interval the design gives quantize_nparray: the range of the
\* kind under reduce_range=false, symmetric=true, narrowed by low and high.
ExpectedClipLow(k, low) ==
    LET qmin == SymmetricRangeOf(k)[1]
    IN  IF low = None THEN qmin ELSE IF low[1] > qmin THEN low[1] ELSE qmin
ExpectedClipHigh(k, high) ==
    LET qmax == SymmetricRangeOf(k)[2]
    IN  IF high = None THEN qmax ELSE IF high[1] < qmax THEN high[1] ELSE qmax
ExpectedQuantized(k, x, scale, zero_point, low, high) ==
    LET v == RRound(RDiv(x, scale)) + zero_point
        lo == ExpectedClipLow(k, low)
        hi == ExpectedClipHigh(k, high)
    IN  IF v < lo THEN lo ELSE IF v > hi THEN hi ELSE v

\* The lowest value an integer kind may hold after quantize_nparray.
SymmetricFloor(k) == SymmetricRangeOf(k)[1]

\* C3: for an integer kind quantize_nparray returns, for each element x,
\* round(x / scale) + zero_point clipped to [max(qmin, low), min(qmax, high)]
\* with (qmin, qmax) the symmetric range of the kind; so no INT8 element is
\* below -127 and no INT16 element below -32767, also in what quantize_data
\* returns under any policy.
C3_ClipToSymmetricRange ==
    /\ (Returned("quantize_nparray") /\ call.qType \in IntKinds) =>
           /\ IsOk(ret)
           /\ Len(ret.array) = Len(call.arr)
           /\ \A i \in 1..Len(call.arr) :
                  /\ ret.array[i] = ExpectedQuantized(call.qType, call.arr[i],
                                        call.scale, call.zero_point,
                                        call.low, call.high)
                  /\ ret.array[i] >= SymmetricFloor(call.qType)
    /\ (Returned("quantize_data") /\ call.qType \in IntKinds /\ IsOk(ret)) =>
           \A i \in 1..Len(ret.value.quantized_data) :
               ret.value.quantized_data[i] >= SymmetricFloor(call.qType)

C3_Witness ==
    /\ Returned("quantize_nparray")
    /\ call.qType = "INT8" /\ call.zero_point = -128
    /\ call.low = None /\ call.high = None
    /\ \E i \in 1..Len(call.arr) :
           /\ RRound(RDiv(call.arr[i], call.scale)) + call.zero_point < -127
           /\ ret.array[i] = -127

\* m is the least (greatest) element of the non-empty array.
IsMinOf(m, data) ==
    /\ \E i \in 1..Len(data) : data[i] = m
    /\ \A i \in 1..Len(data) : ~RLess(data[i], m)
IsMaxOf(m, data) ==
    /\ \E i \in 1..Len(data) : data[i] = m
    /\ \A i \in 1..Len(data) : ~RLess(m, data[i])

IsKnownVectorCall ==
    /\ call.data = KnownVector
    /\ call.qType = "INT8" /\ call.symmetric /\ ~call.reduce_range

\* C4, as stated: quantize_data returns the zero-extended range, rmin = 0
\* for data above 0 and rmax = 0 for data below 0; for [1, 2, 3], INT8,
\* symmetric it returns rmin = 0, rmax = 3, zero_point = 0, scale = 3/127
\* and round([1, 2, 3] / scale) clipped to [-127, 127].
C4_ReturnsZeroExtendedRange ==
    (Returned("quantize_data") /\ IsOk(ret) /\ Len(call.data) > 0) =>
        /\ (\A i \in 1..Len(call.data) : RLess(Zero, call.data[i])) =>
               ret.value.rmin = Zero
        /\ (\A i \in 1..Len(call.data) : RLess(call.data[i], Zero)) =>
               ret.value.rmax = Zero
        /\ IsKnownVectorCall =>
               /\ ret.value.rmin = Zero
               /\ ret.value.rmax = IntReal(3)
               /\ ret.value.zero_point = 0
               /\ ret.value.scale = Real(3, 127, 0)
               /\ ret.value.quantized_data = <<42, 85, 127>>

\* C4, amended: quantize_data returns rmin = min(data) and rmax = max(data)
\* as observed; zero is forced only into the range scale and zero_point are
\* derived from (they are those of compute_scale_zp on the zero-extended
\* range).  For [1, 2, 3], INT8, symmetric it returns rmin = 1, rmax = 3,
\* zero_point = 0, scale = 3/127 and the quantized values [42, 85, 127].
C4_ReturnsObservedRange ==
    (Returned("quantize_data") /\ IsOk(ret) /\ Len(call.data) > 0) =>
        /\ IsMinOf(ret.value.rmin, call.data)
        /\ IsMaxOf(ret.value.rmax, call.data)
        /\ call.qType \in IntKinds =>
               LET q == PolicyRangeOf(call.qType, call.reduce_range, call.symmetric)
                   lo == IF RLess(Zero, ret.value.rmin) THEN Zero ELSE ret.value.rmin
                   hi == IF RLess(ret.value.rmax, Zero) THEN Zero ELSE ret.value.rmax
                   zs == compute_scale_zp(lo, hi, q[1], q[2], call.symmetric)
               IN  /\ IsOk(zs)
                   /\ ret.value.zero_point = zs.value.zero_point
                   /\ ret.value.scale = zs.value.scale
        /\ IsKnownVectorCall =>
               /\ ret.value.rmin = IntReal(1)
               /\ ret.value.rmax = IntReal(3)
               /\ ret.value.zero_point = 0
               /\ ret.value.scale = Real(3, 127, 0)
               /\ ret.value.quantized_data = <<42, 85, 127>>

C4_Witness ==
    /\ Returned("quantize_data") /\ IsOk(ret)
    /\ IsKnownVectorCall
    /\ ret.value.rmin = IntReal(1)
    /\ ret.value.scale = Real(3, 127, 0)

\* C5: for the four integer kinds and FLOAT8E4M3FN, quantize_data on empty
\* input with symmetric=false and reduce_range=false returns rmin = 0,
\* rmax = 0, zero_point = 0, scale = 1.0 and an empty buffer, and raises
\* nothing.
C5_EmptyInputDefaults ==
    (/\ Returned("quantize_data")
     /\ Len(call.data) = 0
     /\ call.qType \in IntKinds \cup {Float8Kind}
     /\ ~call.symmetric /\ ~call.reduce_range) =>
        /\ IsOk(ret)
        /\ ret.value.rmin = Zero
        /\ ret.value.rmax = Zero
        /\ ret.value.zero_point = 0
        /\ ret.value.scale = One
        /\ ret.value.quantized_data = << >>

\* The statement of C5 for the integer kinds alone.
C5_EmptyInputDefaultsIntegerKinds ==
    (/\ Returned("quantize_data")
     /\ Len(call.data) = 0
     /\ call.qType \in IntKinds) =>
        ret = Ok([rmin |-> Zero, rmax |-> Zero, zero_point |-> 0,
                  scale |-> One, quantized_data |-> << >>])

\* The range of the design after zero-extension and symmetrization.
DesignLow(rmin) == IF RLess(rmin, Zero) THEN rmin ELSE Zero
DesignHigh(rmax) == IF RLess(Zero, rmax) THEN rmax ELSE Zero
DesignAbsMax(rmin, rmax) ==
    LET lo == RAbs(DesignLow(rmin))
        hi == RAbs(DesignHigh(rmax))
    IN  IF RLess(lo, hi) THEN hi ELSE lo
\* (rmax - rmin) / (qmax - qmin) of the design, for qmin < qmax.
DesignScale(rmin, rmax, qmin, qmax, symmetric) ==
    LET width == IF symmetric
                     THEN RAdd(DesignAbsMax(rmin, rmax), DesignAbsMax(rmin, rmax))
                 ELSE RSub(DesignHigh(rmax), DesignLow(rmin))
    IN  RDiv(width, IntReal(qmax - qmin))
\* x < 2^-126, the smallest positive normal float32.
BelowFloat32Tiny(x) == RLess(x, Real(1, 1, -126))

\* C6: whenever the scale compute_scale_zp computes, (rmax - rmin) /
\* (qmax - qmin) after zero-extension and symmetrization, is below the
\* smallest positive normal float32, the call returns zero_point = 0 and
\* scale = 1.0 and raises nothing; compute_scale_zp(0, 0, 0, 255, false)
\* returns (0, 1.0).
C6_DegenerateScaleRecovery ==
    Returned("compute_scale_zp") =>
        /\ (/\ call.qmin <= 0 /\ 0 <= call.qmax /\ call.qmin < call.qmax
            /\ BelowFloat32Tiny(DesignScale(call.rmin, call.rmax, call.qmin,
                                            call.qmax, call.symmetric))) =>
               ret = Ok([zero_point |-> 0, scale |-> One])
        /\ (/\ call.rmin = Zero /\ call.rmax = Zero
            /\ call.qmin = 0 /\ call.qmax = 255 /\ ~call.symmetric) =>
               ret = Ok([zero_point |-> 0, scale |-> One])

\* A scale that is not zero and still below the threshold.
C6_Witness ==
    /\ Returned("compute_scale_zp")
    /\ call.qmin = 0 /\ call.qmax = 255 /\ ~call.symmetric
    /\ RLess(call.rmin, Zero) /\ call.rmax = Zero
    /\ ret = Ok([zero_point |-> 0, scale |-> One])

\* C7: with symmetric=true and qmin <= 0 <= qmax the outcome of
\* compute_scale_zp(rmin, rmax, ...) is that of compute_scale_zp(-absmax,
\* absmax, ...) for absmax = max(|min(rmin, 0)|, |max(rmax, 0)|); (-3, 7)
\* gives what (-7, 7) gives.
C7_SymmetricDependsOnAbsMax ==
    (/\ Returned("compute_scale_zp")
     /\ call.symmetric
     /\ call.qmin <= 0 /\ 0 <= call.qmax) =>
        /\ LET absmax == DesignAbsMax(call.rmin, call.rmax)
           IN  ret = compute_scale_zp(RNeg(absmax), absmax, call.qmin,
                                      call.qmax, TRUE)
        /\ (call.rmin = IntReal(-3) /\ call.rmax = IntReal(7)) =>
               ret = compute_scale_zp(IntReal(-7), IntReal(7), call.qmin,
                                      call.qmax, TRUE)

C7_Witness ==
    /\ Returned("compute_scale_zp")
    /\ call.symmetric
    /\ call.rmin = IntReal(-3) /\ call.rmax = IntReal(7)
    /\ call.qmin = -127 /\ call.qmax = 127
    /\ ret = Ok([zero_point |-> 0, scale |-> Real(14, 254, 0)])

\* d = scale * (q - zero_point), elementwise.
Dequantized(q, scale, zero_point) ==
    [i \in 1..Len(q) |-> RMul(scale, IntReal(q[i] - zero_point))]

C9_ZeroMapsToZeroPoint ==
    (/\ Returned("quantize_data")
     /\ call.qType \in IntKinds
     /\ Len(call.data) > 0
     /\ IsOk(ret)) =>
        quantize_nparray(call.qType, << Zero >>, ret.value.scale,
                         ret.value.zero_point, None, None, None)
            = OkArray(<< ret.value.zero_point >>)

\* C10: compute_scale_zp raises ValueError exactly when qmin > 0 or
\* qmax < 0, and whenever qmin <= 0 <= qmax it returns a pair.
C10_InvalidRangeOnly ==
    Returned("compute_scale_zp") =>
        /\ (ret.status = "ValueError") <=> (call.qmin > 0 \/ call.qmax < 0)
        /\ (call.qmin <= 0 /\ 0 <= call.qmax) => IsOk(ret)

\* The statement of C10 for the ranges of positive width, qmin < qmax.
C10_InvalidRangeOnlyPositiveWidth ==
    (Returned("compute_scale_zp") /\ call.qmin # call.qmax) =>
        /\ (ret.status = "ValueError") <=> (call.qmin > 0 \/ call.qmax < 0)
        /\ (call.qmin <= 0 /\ 0 <= call.qmax) => IsOk(ret)

(***************************************************************************)
(* C11                                                                     *)
(***************************************************************************)
\* std / std_f8 for the kind's finite values, NaN when std is.
ExpectedFloat8Scale(std) ==
    IF IsNaN(std) THEN NaN ELSE [var |-> std, f8 |-> Float8FiniteValues]

\* Every entry is the one value its kind has, whichever call stored it.
CacheEntriesFixed ==
    \A k \in DOMAIN FLOAT8_DISTRIBUTIONS :
        /\ k = Float8Kind
        /\ FLOAT8_DISTRIBUTIONS[k] = Float8FiniteValues

\* A call for a kind without a decoder never reaches the assignment and
\* ends in ValueError; any other call returns zero 0 and the scale of its
\* (kind, std).
CallsAnswered ==
    \A t \in Threads :
        /\ threads[t].pc \in {"store", "scale"} => threads[t].element_type = Float8Kind
        /\ threads[t].pc = "returned" =>
               IF threads[t].element_type = Float8Kind
                   THEN threads[t].ret =
                            Ok([zero_point |-> 0,
                                scale |-> ExpectedFloat8Scale(threads[t].std)])
               ELSE threads[t].ret = Raise("ValueError")

\* A step keeps every entry as it is, adds an entry only by the assignment
\* of a thread that found the kind absent, and leaves the cache alone when
\* it raises.
CacheStep ==
    /\ \A k \in DOMAIN FLOAT8_DISTRIBUTIONS :
           /\ k \in DOMAIN FLOAT8_DISTRIBUTIONS'
           /\ FLOAT8_DISTRIBUTIONS'[k] = FLOAT8_DISTRIBUTIONS[k]
    /\ \A k \in DOMAIN FLOAT8_DISTRIBUTIONS' \ DOMAIN FLOAT8_DISTRIBUTIONS :
           \E t \in Threads :
               /\ threads[t].pc = "store"
               /\ threads[t].element_type = k
               /\ threads'[t].pc = "scale"
    /\ \A t \in Threads :
           (threads'[t].ret = Raise("ValueError") /\ threads[t].ret # Raise("ValueError"))
               => FLOAT8_DISTRIBUTIONS' = FLOAT8_DISTRIBUTIONS

\* C11: over any interleaving of compute_scale_zp_float8 calls the cache
\* FLOAT8_DISTRIBUTIONS is append-only and keyed by kind: an entry is added
\* by the first request that finds its kind absent, is never changed or
\* removed afterwards and has the same value whichever call stored it; a
\* call for a kind without a decoder fails (ValueError) and leaves the cache
\* unchanged; zero_point is always 0 and the scale of a (kind, std) is the
\* same on every call.
C11_CacheAppendOnly ==
    /\ [](CacheEntriesFixed /\ CallsAnswered)
    /\ [][CacheStep]_vars

\* Two calls raced for the same kind: one has stored and returned its
\* scale, the other, which also found the kind absent, is about to store.
C11_Witness ==
    /\ Float8Kind \in DOMAIN FLOAT8_DISTRIBUTIONS
    /\ threads["t1"].pc = "store"
    /\ threads["t2"].pc = "returned"
    /\ IsOk(threads["t2"].ret)
    /\ threads["t2"].ret.value.scale # NaN

(***************************************************************************)
(* C12                                                                     *)
(***************************************************************************)
\* C12: for every integer kind, every (symmetric, reduce_range) policy and
\* every non-empty data, every element of the buffer quantize_data returns
\* lies within the (qmin, qmax) range get_qmin_qmax_for_qType gives for
\* that policy; with reduce_range no element leaves the reduced range.
C12_ElementsWithinPolicyRange ==
    (/\ Returned("quantize_data")
     /\ call.qType \in IntKinds
     /\ Len(call.data) > 0
     /\ IsOk(ret)) =>
        LET qr == get_qmin_qmax_for_qType(call.qType, call.reduce_range,
                                          call.symmetric).value
        IN  \A i \in 1..Len(ret.value.quantized_data) :
                /\ qr.qmin <= ret.value.quantized_data[i]
                /\ ret.value.quantized_data[i] <= qr.qmax

\* Without reduce_range the elements do stay within the policy's range.
C12_ElementsWithinFullPolicyRange ==
    (/\ Returned("quantize_data")
     /\ call.qType \in IntKinds
     /\ ~call.reduce_range
     /\ Len(call.data) > 0
     /\ IsOk(ret)) =>
        LET qr == get_qmin_qmax_for_qType(call.qType, FALSE, call.symmetric).value
        IN  \A i \in 1..Len(ret.value.quantized_data) :
                /\ qr.qmin <= ret.value.quantized_data[i]
                /\ ret.value.quantized_data[i] <= qr.qmax

(***************************************************************************)
(* C13                                                                     *)
(***************************************************************************)
\* C13: whatever metadata properties the model already holds, after
\* add_pre_process_metadata(model) model_has_pre_process_metadata(model)
\* returns true, and after add_infer_metadata(model)
\* model_has_infer_metadata(model) returns true, after any sequence of the
\* two add operations.
C13_TaggingEstablishesCheck ==
    /\ Returned("add_pre_process_metadata")
           => model_has_pre_process_metadata(metadata_props)
    /\ Returned("add_infer_metadata")
           => model_has_infer_metadata(metadata_props)

\* The model held no entry under key with another value than the tag's.
HeldNoOtherValue(props, key) ==
    \A i \in 1..Len(props) : props[i].key = key => props[i].value = QuantValue

\* Tagging does establish its check on a model that did not hold the tag's
\* key under another value.
C13_TaggingEstablishesCheckUnlessHeld ==
    /\ (Returned("add_pre_process_metadata")
            /\ HeldNoOtherValue(call.before, PreProcessKey))
           => model_has_pre_process_metadata(metadata_props)
    /\ (Returned("add_infer_metadata")
            /\ HeldNoOtherValue(call.before, InferKey))
           => model_has_infer_metadata(metadata_props)

=============================================================================
